---- MODULE Spec2Model ----
(***************************************************************************)
(* jquery.makePlugin.js: the Plugin class, getPlugin, and the entry point  *)
(* that makePlugin exports to $.fn, together with the part of jQuery they  *)
(* delegate to (data, on/off/trigger, extend, remove).  The plugin         *)
(* definition is the tableStyler example, extended by one descriptor whose *)
(* eventName, target and selector are callbacks, and by API methods that   *)
(* return a value or hand a descriptor to this.bind, this.unbind and       *)
(* this.trigger.  A second                                                 *)
(* specification, SpecDefinitions, runs makePlugin on variants of that     *)
(* definition (no name, a descriptor without an event name, an init that   *)
(* raises or that calls the entry point) next to listeners that other code *)
(* registered.                                                             *)
(***************************************************************************)
EXTENDS Integers, Sequences, FiniteSets, Bags, TLC

\* Bounds of the model
MaxPlugins == 2        \* Plugin objects constructed in one behaviour
MaxBind == 1           \* copies of one listener registered through this.bind()
MaxStack == 1          \* nested calls of the entry point the engine's stack holds

VARIABLES
    pluginDef,   \* the definition handed to $.makePlugin
    fn,          \* the names under which $.fn holds an entry point
    heap,        \* JS objects that hold configuration: pluginDef.defaults, its
                 \* nested objects, and every instance's config
    plugins,     \* the Plugin objects constructed so far, in order
    data,        \* $(e).data(pluginName) of every element: a plugin id, or 0
    listeners,   \* bag of the listeners attached through jQuery's .on
    inDocument,  \* the elements that are still in the document
    call,        \* the last operation and its arguments
    ret,         \* what the last operation returned or raised
    fired,       \* bag of the listeners whose handler the last operation invoked
    log          \* the definition's callbacks (init, API methods) the last
                 \* operation ran, in order

vars == <<pluginDef, fn, heap, plugins, data, listeners, inDocument, call, ret, fired, log>>

----------------------------------------------------------------------------
\* The document and the element collections the entry point is called on

Window == "window"
Elements == {"t1", "t2"}

\* jQuery collections over Elements: ordered, without repetition
Collections == {<<"t1">>, <<"t2">>, <<"t1", "t2">>}

Range(s) == {s[i] : i \in DOMAIN s}

----------------------------------------------------------------------------
\* JavaScript values, tagged with their $.type

Undefined == [type |-> "undefined", val |-> ""]
Str(s) == [type |-> "string", val |-> s]
Obj(o) == [type |-> "object", val |-> o]
Fn(f) == [type |-> "function", val |-> f]
Null == [type |-> "null", val |-> ""]
Num(n) == [type |-> "number", val |-> n]

\* JavaScript truthiness of a tagged value
Truthy(v) ==
    /\ v.type \notin {"undefined", "null"}
    /\ ~(v.type = "string" /\ v.val = "")

EmptyMap == [k \in {} |-> ""]
EmptyRefs == [k \in {} |-> <<0, "">>]
EmptyNested == [k \in {} |-> EmptyMap]

\* A configuration object literal: scalar entries, and nested object literals
EmptyOptions == [scal |-> EmptyMap, nested |-> EmptyNested]

----------------------------------------------------------------------------
\* The plugin definition handed to $.makePlugin

\* pluginDef.pluginName
PluginName == "tableStyler"

\* Addresses of the configuration objects on the heap.  <<0, "">> is
\* pluginDef.defaults and <<0, k>> the object literal nested in it under key k;
\* <<p, "">> is the config of plugin p and <<p, k>> an object that the deep
\* merge of plugin p created under key k.
DefaultsId == <<0, "">>
ConfigId(p) == <<p, "">>

\* pluginDef.defaults as written: { mode: "plain", style: { color: "red",
\* event: "mouseover" } }
DefaultsAsWritten ==
    [scal |-> ("mode" :> "plain"),
     nested |-> ("style" :> (("color" :> "red") @@ ("event" :> "mouseover")))]

\* The heap right after the definition's object literal has been evaluated
InitialHeap ==
    (DefaultsId :>
        [scal |-> DefaultsAsWritten.scal, refs |-> ("style" :> <<0, "style">>)])
    @@ (<<0, "style">> :>
        [scal |-> DefaultsAsWritten.nested["style"], refs |-> EmptyRefs])

\* pluginDef.eventHandlers.  The first two are the example's; the third has a
\* callback for each of eventName, target and selector.
EventHandlers ==
    << [def |-> "click", eventName |-> Str("click"),
        target |-> Undefined, selector |-> Undefined],
       [def |-> "resize", eventName |-> Str("resize"),
        target |-> Obj(<<Window>>), selector |-> Undefined],
       [def |-> "cell", eventName |-> Fn("config.style.event"),
        target |-> Fn("element"), selector |-> Fn("td")] >>

\* The descriptor the API method "listen" hands to this.bind()
KeyupHandler ==
    [def |-> "keyup", eventName |-> Str("keyup"),
     target |-> Undefined, selector |-> Undefined]

\* The descriptor the helper simulateTableClick hands to this.trigger()
ClickTrigger ==
    [def |-> "click", eventName |-> Str("click"),
     target |-> Undefined, selector |-> Undefined]

\* The names of the functions in pluginDef.api
ApiNames ==
    {"echo", "listen", "unbindEventHandlers", "simulateTableClick", "destroyPlugin"}

\* API methods that hand the descriptor they are called with to this.bind,
\* this.unbind and this.trigger
DescriptorApiNames == {"bindTo", "unbindFrom", "fire"}

\* The names of the functions in pluginDef.helpers
HelperNames == {"applyStyle", "simulateTableClick"}

\* Property names every object literal inherits from Object.prototype
ObjectPrototypeNames == {"toString"}

\* The configuration objects callers pass
ConfigArgs ==
    { EmptyOptions,
      [scal |-> ("mode" :> "fancy"), nested |-> ("style" :> ("color" :> "blue"))],
      [scal |-> EmptyMap, nested |-> ("style" :> ("event" :> "mouseout"))] }

\* The argument lists callers pass after an API method's name
ApiArgs == {<<>>, <<1, 2>>}

\* Strings callers pass as first argument that name no API method
UnknownNames == {"nope", "", "toString"}

\* The descriptors callers pass to bindTo, unbindFrom and fire: with an empty
\* event name, with a callback that returns this.config.missing, and with a
\* name of two events
CallerDescriptors ==
    { [def |-> "blank", eventName |-> Str(""),
       target |-> Undefined, selector |-> Undefined],
      [def |-> "lookup", eventName |-> Fn("config.missing"),
       target |-> Undefined, selector |-> Undefined],
      [def |-> "pair", eventName |-> Str("click keyup"),
       target |-> Undefined, selector |-> Undefined] }

\* The definition: its name, its eventHandlers and its init.  The example's
\* init calls this.helpers.applyStyle.
TableStyler ==
    [pluginName |-> Str(PluginName), eventHandlers |-> EventHandlers,
     init |-> Fn("applyStyle")]

\* The definition without a name, with an empty name, and with a name that
\* is no string
UnnamedDefinitions ==
    {[TableStyler EXCEPT !.pluginName = n] : n \in {Undefined, Str(""), Num(7)}}

\* The definition with the event name of one of its descriptors left out
FaultyHandlerDefinitions ==
    {[TableStyler EXCEPT !.eventHandlers[i].eventName = Undefined] :
        i \in DOMAIN EventHandlers}

\* The definition with an init that raises, and with one that calls the
\* plugin's entry point on this.element
FaultyInitDefinitions ==
    {[TableStyler EXCEPT !.init = Fn(f)] : f \in {"raise", "reenter"}}

Definitions ==
    {TableStyler} \cup UnnamedDefinitions \cup FaultyHandlerDefinitions
        \cup FaultyInitDefinitions

\* The key under which a value used as property name is stored
PropertyKey(v) == IF v.type = "string" THEN v.val ELSE "7"

\* Listeners that code outside the plugin registers: $(t).on("click", f),
\* another plugin's $(t).on("click.otherPlugin", g), $(window).on("resize", h)
OutsideListeners ==
    { [target |-> "t1", type |-> "click", ns |-> "", selector |-> "",
       plugin |-> 0, def |-> "page"],
      [target |-> "t1", type |-> "click", ns |-> "otherPlugin", selector |-> "",
       plugin |-> 0, def |-> "other"],
      [target |-> Window, type |-> "resize", ns |-> "", selector |-> "",
       plugin |-> 0, def |-> "page"] }

----------------------------------------------------------------------------
\* jQuery.extend

Restrict(f, S) == [k \in S |-> f[k]]

\* target[name] = copy, for every scalar entry of the options: the value
\* replaces whatever the target held under that name
AssignScalars(obj, scal) ==
    [scal |-> scal @@ obj.scal,
     refs |-> Restrict(obj.refs, DOMAIN obj.refs \ DOMAIN scal)]

\* The deep branch of jQuery.extend for the nested entries `keys` of the
\* options: clone = src when the target already holds a plain object under
\* the name (the very object, not a copy of it), a new object otherwise;
\* target[name] = jQuery.extend(deep, clone, copy).
RECURSIVE ExtendNested(_, _, _, _)
ExtendNested(h, tid, nested, keys) ==
    IF keys = {} THEN h
    ELSE LET k == CHOOSE x \in keys : TRUE
             t == h[tid]
             shared == k \in DOMAIN t.refs
             cid == IF shared THEN t.refs[k] ELSE <<tid[1], k>>
             clone == IF shared THEN h[cid]
                      ELSE [scal |-> EmptyMap, refs |-> EmptyRefs]
             h1 == (cid :> AssignScalars(clone, nested[k])) @@ h
             h2 == [h1 EXCEPT ![tid] =
                       [scal |-> Restrict(t.scal, DOMAIN t.scal \ {k}),
                        refs |-> (k :> cid) @@ t.refs]]
         IN  ExtendNested(h2, tid, nested, keys \ {k})

\* $.extend(true, target, options) with the target at address tid
ExtendDeep(h, tid, options) ==
    LET h1 == [h EXCEPT ![tid] = AssignScalars(h[tid], options.scal)]
    IN  ExtendNested(h1, tid, options.nested, DOMAIN options.nested)

\* $.extend({ }, src): a new object with src's entries; a nested object is
\* entered by reference
ExtendShallow(h, tid, src) == (tid :> h[src]) @@ h

\* The value of the object at address id, nested objects read through
ValueOf(h, id) ==
    [scal |-> h[id].scal,
     nested |-> [k \in DOMAIN h[id].refs |-> h[h[id].refs[k]].scal]]

----------------------------------------------------------------------------
\* jQuery events: .on, .off, .trigger, and the host's delivery of an event

\* events.match(/\S+/g): the words of the strings that are used as event names
Words(events) ==
    IF events = "click keyup" THEN <<"click", "keyup">> ELSE <<events>>

\* What .on and .off make of the string eventName + "." + namespace: they
\* split it at white space and take every word as "type.namespace", so the
\* namespace goes with the last word and the words before it have none
TypesOf(eventName, namespace) ==
    [i \in DOMAIN Words(eventName) |->
        [type |-> Words(eventName)[i],
         ns |-> IF i = Len(Words(eventName)) THEN namespace ELSE ""]]

\* A listener: the element it is attached to, the event type and namespace
\* of "type.namespace", the delegation selector ("" when there is none), and
\* the plugin and descriptor whose handler it wraps
Listener(t, type, ns, sel, p, def) ==
    [target |-> t, type |-> type, ns |-> ns, selector |-> sel,
     plugin |-> p, def |-> def]

\* The bag B cut down to the elements in S
BagRestrict(B, S) == [l \in (DOMAIN B \cap S) |-> B[l]]

\* $(target).on(type + "." + ns, selector, fn): one listener on every element
\* of the collection
On(L, target, type, ns, sel, p, def) ==
    L (+) SetToBag({Listener(t, type, ns, sel, p, def) : t \in Range(target)})

\* jQuery.event.remove's test: same type, the same namespace unless none is
\* given, and the same selector unless none is given
OffMatches(l, target, type, ns, sel) ==
    /\ l.target \in Range(target)
    /\ l.type = type
    /\ (ns = "" \/ l.ns = ns)
    /\ (sel = "" \/ l.selector = sel)

\* $(target).off(type + "." + ns, selector)
Off(L, target, type, ns, sel) ==
    BagRestrict(L, {l \in DOMAIN L : ~OffMatches(l, target, type, ns, sel)})

\* The elements an event that starts at t passes: t, and window when t is in
\* the document
Path(t, doc) == IF t \in doc THEN {t, Window} ELSE {t}

\* The listeners an event of the type invokes that starts at `origin`
\* (origin.sel = "": at the element origin.elem itself; otherwise at a
\* descendant of it that matches origin.sel).  ns = "" is an event without a
\* namespace, which every listener of the type takes.  A delegated listener
\* runs only for an event from a descendant that matches its selector.
Invoked(L, doc, origin, type, ns) ==
    BagRestrict(L, {l \in DOMAIN L :
        /\ l.target \in Path(origin.elem, doc)
        /\ l.type = type
        /\ (ns = "" \/ l.ns = ns)
        /\ (l.selector = "" \/ l.selector = origin.sel)})

\* $(target).trigger(type + "." + ns): the event starts at every element of
\* the collection in turn
RECURSIVE Trigger(_, _, _, _, _)
Trigger(L, doc, target, type, ns) ==
    IF target = <<>> THEN EmptyBag
    ELSE Invoked(L, doc, [elem |-> Head(target), sel |-> ""], type, ns)
         (+) Trigger(L, doc, Tail(target), type, ns)

\* $(element).remove(): takes the elements out of the document and cleans
\* their jQuery data and listeners
RemoveListeners(L, element) ==
    BagRestrict(L, {l \in DOMAIN L : l.target \notin Range(element)})

----------------------------------------------------------------------------
\* The state one call works on: the program's state, and the call's own
\* outcome so far.  err is a raised error on its way up the call stack;
\* plugin is the id getPlugin returned; depth counts the calls of the entry
\* point that are on the stack below the running one.

World ==
    [pluginDef |-> pluginDef, heap |-> heap, plugins |-> plugins, data |-> data,
     listeners |-> listeners, inDocument |-> inDocument, fired |-> EmptyBag,
     log |-> <<>>, err |-> FALSE, ret |-> Undefined, plugin |-> 0, depth |-> 0]

\* $.error(message): throws
Raise(w) == [w EXCEPT !.err = TRUE]

----------------------------------------------------------------------------
\* class Plugin

\* The definition's callbacks for eventName, target and selector, run with
\* plugin p as `this`
ApplyCallback(w, p, f) ==
    CASE f = "config.style.event" ->
            \* function () { return this.config.style.event; }
            LET c == w.heap[w.plugins[p].config]
            IN  IF "style" \in DOMAIN c.refs
                   /\ "event" \in DOMAIN w.heap[c.refs["style"]].scal
                THEN Str(w.heap[c.refs["style"]].scal["event"])
                ELSE Undefined
      [] f = "config.missing" ->
            \* function () { return this.config.missing; }
            Undefined
      [] f = "element" ->
            \* function () { return this.element; }
            Obj(w.plugins[p].element)
      [] f = "td" ->
            \* function () { return "td"; }
            Str("td")

\* getValue(val)
getValue(w, p, val) ==
    CASE val.type \in {"null", "undefined"} -> Null
      [] val.type = "function" -> ApplyCallback(w, p, val.val)
      [] OTHER -> val

\* var target = getValue(handlerDef.target) || $(self.element);
TargetOf(w, p, handlerDef) ==
    LET t == getValue(w, p, handlerDef.target)
    IN  IF Truthy(t) THEN t.val ELSE w.plugins[p].element

\* var selector = getValue(handlerDef.selector), as .on and .off take it: a
\* selector that is not a non-empty string selects nothing
SelectorOf(w, p, handlerDef) ==
    LET s == getValue(w, p, handlerDef.selector)
    IN  IF s.type = "string" THEN s.val ELSE ""

\* bind without the check of the event name
bindUnchecked(w, p, handlerDef) ==
    IF w.err THEN w
    ELSE LET eventName == getValue(w, p, handlerDef.eventName)
         IN  [w EXCEPT !.listeners =
                 On(@, TargetOf(w, p, handlerDef), eventName.val,
                    w.plugins[p].pluginName, SelectorOf(w, p, handlerDef),
                    p, handlerDef.def)]

\* $(target).on(fullEventName, selector, fn): .on for every word of the name
RECURSIVE OnEach(_, _, _, _, _, _)
OnEach(L, target, types, sel, p, def) ==
    IF types = <<>> THEN L
    ELSE OnEach(On(L, target, Head(types).type, Head(types).ns, sel, p, def),
                target, Tail(types), sel, p, def)

\* $(target).off(fullEventName, selector): .off for every word of the name
RECURSIVE OffEach(_, _, _, _)
OffEach(L, target, types, sel) ==
    IF types = <<>> THEN L
    ELSE OffEach(Off(L, target, Head(types).type, Head(types).ns, sel),
                 target, Tail(types), sel)

\* bind that also runs the handler once when it attaches it
bindAndInvoke(w, p, handlerDef) ==
    IF w.err THEN w
    ELSE LET eventName == getValue(w, p, handlerDef.eventName)
             bound == OnEach(EmptyBag, TargetOf(w, p, handlerDef),
                             TypesOf(eventName.val, w.plugins[p].pluginName),
                             SelectorOf(w, p, handlerDef), p, handlerDef.def)
         IN  IF ~Truthy(eventName) THEN Raise(w)
             ELSE [w EXCEPT !.listeners = @ (+) bound, !.fired = @ (+) bound]

\* this.bind(handlerDef)
bind(w, p, handlerDef) ==
    IF w.err THEN w
    ELSE LET eventName == getValue(w, p, handlerDef.eventName)
         IN  IF ~Truthy(eventName) THEN Raise(w)
             ELSE [w EXCEPT !.listeners =
                      OnEach(@, TargetOf(w, p, handlerDef),
                             TypesOf(eventName.val, w.plugins[p].pluginName),
                             SelectorOf(w, p, handlerDef), p, handlerDef.def)]

\* this.unbind(handlerDef)
unbind(w, p, handlerDef) ==
    IF w.err THEN w
    ELSE LET eventName == getValue(w, p, handlerDef.eventName)
         IN  IF ~Truthy(eventName) THEN Raise(w)
             ELSE [w EXCEPT !.listeners =
                      OffEach(@, TargetOf(w, p, handlerDef),
                              TypesOf(eventName.val, w.plugins[p].pluginName),
                              SelectorOf(w, p, handlerDef))]

\* this.trigger(handlerDef); every listener the event reaches runs its
\* handler, handler.apply(self, arguments).  .trigger does not split the
\* name at white space: its type is all that stands before the first "."
trigger(w, p, handlerDef) ==
    IF w.err THEN w
    ELSE LET eventName == getValue(w, p, handlerDef.eventName)
         IN  IF ~Truthy(eventName) THEN Raise(w)
             ELSE [w EXCEPT !.fired = @ (+)
                      Trigger(w.listeners, w.inDocument, TargetOf(w, p, handlerDef),
                              eventName.val, w.plugins[p].pluginName)]

\* $.each(self.eventHandlers, function (index, handlerDef) { self.bind(handlerDef); })
RECURSIVE BindEach(_, _, _)
BindEach(w, p, handlerDefs) ==
    IF handlerDefs = <<>> \/ w.err THEN w
    ELSE BindEach(bind(w, p, Head(handlerDefs)), p, Tail(handlerDefs))

\* $.each(self.eventHandlers, function (index, handlerDef) { self.unbind(handlerDef); })
RECURSIVE UnbindEach(_, _, _)
UnbindEach(w, p, handlerDefs) ==
    IF handlerDefs = <<>> \/ w.err THEN w
    ELSE UnbindEach(unbind(w, p, Head(handlerDefs)), p, Tail(handlerDefs))

\* $(self.element).remove()
Remove(w, element) ==
    [w EXCEPT !.inDocument = @ \ Range(element),
              !.data = [e \in Elements |-> IF e \in Range(element) THEN 0 ELSE @[e]],
              !.listeners = RemoveListeners(@, element)]

\* this.destroy(fullDestroy).  plugins[p].destroyed notes that the call
\* returned, and with which argument.
destroy(w, p, fullDestroy) ==
    LET w1 == UnbindEach(w, p, w.plugins[p].eventHandlers)
        w2 == IF fullDestroy THEN Remove(w1, w1.plugins[p].element) ELSE w1
    IN  IF w1.err THEN w1
        ELSE [w2 EXCEPT !.plugins[p].destroyed =
                 IF fullDestroy \/ @ = "full" THEN "full" ELSE "unbind"]

\* An entry of the log: a callback of the definition that ran, its receiver,
\* its arguments and (once it has returned) what it returned
LogEntry(name, p, args) ==
    [method |-> name, receiver |-> p, args |-> args, result |-> Undefined]

\* What an instance looks like at one moment: its config, the proxies
\* installed on it, and the descriptors it has a listener bound for
Snapshot(w, p) ==
    [config |-> ValueOf(w.heap, w.plugins[p].config),
     api |-> w.plugins[p].api,
     helpers |-> w.plugins[p].helpers,
     bound |-> {l.def : l \in {x \in DOMAIN w.listeners : x.plugin = p}}]

\* The snapshot of an instance whose init has not run
NotRun == [config |-> EmptyOptions, api |-> {}, helpers |-> {}, bound |-> {}]

RECURSIVE EntryPoint(_, _, _)

\* pluginDef.init.apply(self).  plugins[p].initSaw notes what the instance
\* looked like when init was entered.
DefinitionInit(w, p) ==
    LET w0 == [w EXCEPT !.log = Append(@, LogEntry("init", p, <<>>)),
                        !.plugins[p].initSaw = Snapshot(w, p)]
        f == w.pluginDef.init.val
    IN  CASE f = "applyStyle" ->
                \* function () { this.helpers.applyStyle(this.config.style); }
                IF "applyStyle" \in w0.plugins[p].helpers THEN w0 ELSE Raise(w0)
          [] f = "raise" ->
                \* function () { $.error("init failed"); }
                Raise(w0)
          [] f = "reenter" ->
                \* function () { $(this.element).tableStyler("echo"); }
                \* The engine raises a RangeError when its stack is full.
                IF w0.depth >= MaxStack THEN Raise(w0)
                ELSE LET w1 == EntryPoint([w0 EXCEPT !.depth = @ + 1],
                                          w0.plugins[p].element, <<Str("echo")>>)
                     IN  [w1 EXCEPT !.depth = w0.depth, !.plugin = p]

\* The init routine with the definition's init run first, before the proxies
\* are installed and the declared handlers bound
PluginInitFirst(w, p) ==
    IF w.pluginDef.pluginName.type # "string" THEN Raise(w)
    ELSE LET w1 == DefinitionInit(
                      [w EXCEPT !.plugins[p].pluginName = w.pluginDef.pluginName.val],
                      p)
             w2 == [w1 EXCEPT !.plugins[p].api = ApiNames \cup DescriptorApiNames,
                              !.plugins[p].helpers = HelperNames]
         IN  BindEach(w2, p, w2.plugins[p].eventHandlers)

\* The anonymous init routine of the constructor: the name check, the api
\* and helper proxies, the binding of the declared handlers, and
\* pluginDef.init.apply(self)
PluginInit(w, p) ==
    IF w.pluginDef.pluginName.type # "string" THEN Raise(w)
    ELSE LET w1 == [w EXCEPT !.plugins[p].pluginName = w.pluginDef.pluginName.val,
                             !.plugins[p].api = ApiNames \cup DescriptorApiNames,
                             !.plugins[p].helpers = HelperNames]
             w2 == BindEach(w1, p, w1.plugins[p].eventHandlers)
         IN  IF w2.err THEN w2 ELSE DefinitionInit(w2, p)

\* new Plugin(pluginDef, element, config): the id of the new object is the
\* next free index of plugins
Plugin(w, element, config) ==
    LET p == Len(w.plugins) + 1
        cid == ConfigId(p)
        copy == ExtendShallow(w.heap, cid, DefaultsId)
        merged == IF config.type = "object" THEN ExtendDeep(copy, cid, config.val)
                  ELSE copy
        self == [element |-> element, config |-> cid, pluginName |-> "",
                 api |-> {}, helpers |-> {},
                 eventHandlers |-> w.pluginDef.eventHandlers,
                 overrides |-> IF config.type = "object" THEN config.val
                               ELSE EmptyOptions,
                 initSaw |-> NotRun,
                 attached |-> FALSE, destroyed |-> "no"]
    IN  PluginInit([w EXCEPT !.heap = merged, !.plugins = Append(@, self),
                             !.plugin = p], p)

----------------------------------------------------------------------------
\* The functions of pluginDef.api, run with plugin p as `this`

ApiMethod(w, p, name, args) ==
    CASE name = "echo" ->
            \* function () { return [this].concat(arguments); }
            [w EXCEPT !.ret = Obj(<<Num(p)>> \o args)]
      [] name = "listen" ->
            \* function () { this.bind({ eventName: "keyup", handler: ... }); }
            [bind(w, p, KeyupHandler) EXCEPT !.ret = Undefined]
      [] name = "unbindEventHandlers" ->
            \* function () { this.destroy(); }
            [destroy(w, p, FALSE) EXCEPT !.ret = Undefined]
      [] name = "simulateTableClick" ->
            \* function () { this.helpers.simulateTableClick(); }
            [trigger(w, p, ClickTrigger) EXCEPT !.ret = Undefined]
      [] name = "destroyPlugin" ->
            \* function () { this.destroy(true); }
            [destroy(w, p, TRUE) EXCEPT !.ret = Undefined]
      [] name = "bindTo" ->
            \* function (handlerDef) { this.bind(handlerDef); }
            [bind(w, p, args[1].val) EXCEPT !.ret = Undefined]
      [] name = "unbindFrom" ->
            \* function (handlerDef) { this.unbind(handlerDef); }
            [unbind(w, p, args[1].val) EXCEPT !.ret = Undefined]
      [] name = "fire" ->
            \* function (handlerDef) { this.trigger(handlerDef); }
            [trigger(w, p, args[1].val) EXCEPT !.ret = Undefined]

\* self.api[apiMethodName] = function () { return apiMethod.apply(self, arguments); }
ApiProxy(w, self, name, args) ==
    LET w0 == [w EXCEPT !.log = Append(@, LogEntry(name, self, args))]
        w1 == ApiMethod(w0, self, name, args)
    IN  IF w1.err THEN w1 ELSE [w1 EXCEPT !.log[Len(w0.log)].result = w1.ret]

----------------------------------------------------------------------------
\* getPlugin and the entry point $.fn[pluginDef.pluginName]

\* $(element).data(pluginDef.pluginName): read from the first element of the
\* collection; 0 is undefined
DataGet(w, element) == IF element = <<>> THEN 0 ELSE w.data[Head(element)]

\* $(element).data(pluginDef.pluginName, plugin): written to every element of
\* the collection
DataSet(w, element, p) ==
    [w EXCEPT !.data = [e \in Elements |-> IF e \in Range(element) THEN p ELSE @[e]]]

\* getPlugin without the lookup: a new Plugin on every call
getPluginAlwaysNew(w, element, options) ==
    LET w1 == Plugin(w, element, options)
    IN  IF w1.err THEN w1
        ELSE [DataSet(w1, element, w1.plugin)
                 EXCEPT !.plugins[w1.plugin].attached = TRUE]

\* getPlugin(pluginDef, element, options_); the plugin is returned in w.plugin.
\* plugins[p].attached notes that the plugin was stored on its element.
getPlugin(w, element, options) ==
    IF DataGet(w, element) # 0
    THEN [w EXCEPT !.plugin = DataGet(w, element)]
    ELSE LET w1 == Plugin(w, element, options)
         IN  IF w1.err THEN w1
             ELSE [DataSet(w1, element, w1.plugin)
                      EXCEPT !.plugins[w1.plugin].attached = TRUE]

\* api[arg] is truthy: arg names a function of pluginDef.api, or a property
\* the object literal inherits
ApiHas(arg) ==
    /\ arg.type = "string"
    /\ arg.val \in ApiNames \cup DescriptorApiNames \cup ObjectPrototypeNames

\* The entry point with the method name left in the forwarded arguments
EntryPointNoSlice(w, element, arguments) ==
    LET arg == IF arguments = <<>> THEN Undefined ELSE Head(arguments)
    IN  IF ApiHas(arg)
        THEN LET w1 == getPlugin(w, element, Undefined)
             IN  IF w1.err THEN w1
                 ELSE IF arg.val \in w1.plugins[w1.plugin].api
                 THEN ApiProxy(w1, w1.plugin, arg.val, arguments)
                 ELSE IF arg.val \in ObjectPrototypeNames
                 THEN [w1 EXCEPT !.ret = Str("[object Object]")]
                 ELSE Raise(w1)
        ELSE IF arg.type = "object" \/ ~Truthy(arg)
        THEN LET options == IF Len(arguments) > 0 THEN Head(arguments)
                            ELSE Obj(EmptyOptions)
                 w1 == getPlugin(w, element, options)
             IN  IF w1.err THEN w1
                 ELSE [w1 EXCEPT !.ret = Obj(w1.plugins[w1.plugin].element)]
        ELSE Raise(w)

\* $.fn[pluginDef.pluginName] = function (arg) { ... }, called on the
\* collection `element` with the argument list `arguments`
EntryPoint(w, element, arguments) ==
    LET arg == IF arguments = <<>> THEN Undefined ELSE Head(arguments)
    IN  IF ApiHas(arg)
        THEN LET w1 == getPlugin(w, element, Undefined)
             IN  IF w1.err THEN w1
                 ELSE IF arg.val \in w1.plugins[w1.plugin].api
                 THEN ApiProxy(w1, w1.plugin, arg.val, Tail(arguments))
                 ELSE IF arg.val \in ObjectPrototypeNames
                 THEN \* plugin.api is { } and inherits the property:
                      \* Object.prototype.toString.apply(plugin, [])
                      [w1 EXCEPT !.ret = Str("[object Object]")]
                 ELSE \* plugin.api[arg] is undefined
                      Raise(w1)
        ELSE IF arg.type = "object" \/ ~Truthy(arg)
        THEN LET options == IF Len(arguments) > 0 THEN Head(arguments)
                            ELSE Obj(EmptyOptions)
                 w1 == getPlugin(w, element, options)
             IN  IF w1.err THEN w1
                 ELSE [w1 EXCEPT !.ret = Obj(w1.plugins[w1.plugin].element)]
        ELSE Raise(w)

----------------------------------------------------------------------------
\* The state machine

Error == [type |-> "error", val |-> ""]

\* makePlugin without the check of the name
makePluginUnchecked(def) ==
    [err |-> FALSE, fn |-> {PropertyKey(def.pluginName)}]

\* makePlugin(pluginDef): the error it raised, and the entry points $.fn
\* holds after it
makePlugin(def) ==
    IF ~Truthy(def.pluginName) THEN [err |-> TRUE, fn |-> {}]
    ELSE [err |-> FALSE, fn |-> {PropertyKey(def.pluginName)}]

\* The state right after $.makePlugin(TableStyler)
Init ==
    /\ pluginDef = TableStyler
    /\ fn = makePlugin(TableStyler).fn
    /\ heap = InitialHeap
    /\ plugins = <<>>
    /\ data = [e \in Elements |-> 0]
    /\ listeners = EmptyBag
    /\ inDocument = Elements
    /\ call = [op |-> "makePlugin", element |-> <<>>, arguments |-> <<>>]
    /\ ret = Undefined
    /\ fired = EmptyBag
    /\ log = <<>>

\* The bounds of the model on what a call may leave behind
WithinBounds(w) ==
    /\ Len(w.plugins) <= MaxPlugins
    /\ \A l \in DOMAIN w.listeners : w.listeners[l] <= MaxBind

\* One call of the entry point, from the call to its return or its error
Call(op, element, arguments) ==
    \E w \in {EntryPoint(World, element, arguments)} :
        /\ fn # {}
        /\ WithinBounds(w)
        /\ UNCHANGED <<pluginDef, fn>>
        /\ heap' = w.heap
        /\ plugins' = w.plugins
        /\ data' = w.data
        /\ listeners' = w.listeners
        /\ inDocument' = w.inDocument
        /\ call' = [op |-> op, element |-> element, arguments |-> arguments]
        /\ ret' = IF w.err THEN Error ELSE w.ret
        /\ fired' = w.fired
        /\ log' = w.log

\* $(element).tableStyler(config)
CallWithConfig ==
    \E element \in Collections, config \in ConfigArgs :
        Call("config", element, <<Obj(config)>>)

\* $(element).tableStyler()
CallWithoutArguments ==
    \E element \in Collections : Call("noarg", element, <<>>)

\* $(element).tableStyler("method", args...)
CallApiMethod ==
    \E element \in Collections, name \in ApiNames, args \in ApiArgs :
        /\ name # "echo" => args = <<>>
        /\ Call("api", element, <<Str(name)>> \o [i \in DOMAIN args |-> Num(args[i])])

\* $(element).tableStyler(name) with a name that pluginDef.api does not declare
CallUnknownName ==
    \E element \in Collections, name \in UnknownNames :
        Call("unknown", element, <<Str(name)>>)

\* The host delivers an event of the type that starts at an element, at a
\* cell inside it, or at window
EventOrigins ==
    {[elem |-> e, sel |-> s] : e \in Elements, s \in {"", "td"}}
        \cup {[elem |-> Window, sel |-> ""]}
EventTypes == {"click", "resize", "mouseover", "mouseout", "keyup"}

Deliver ==
    \E origin \in EventOrigins, type \in EventTypes :
        /\ call' = [op |-> "deliver", element |-> <<>>, arguments |-> <<>>]
        /\ fired' = Invoked(listeners, inDocument, origin, type, "")
        /\ ret' = Undefined
        /\ log' = <<>>
        /\ UNCHANGED <<pluginDef, fn, heap, plugins, data, listeners, inDocument>>

Next ==
    \/ CallWithConfig
    \/ CallWithoutArguments
    \/ CallApiMethod
    \/ CallUnknownName
    \/ Deliver

Spec == Init /\ [][Next]_vars

----------------------------------------------------------------------------
\* The second state machine: the page's script hands one of the definitions
\* to $.makePlugin, calls the entry point, and registers listeners of its own

\* The state before the script calls $.makePlugin
InitDefinitions ==
    /\ pluginDef \in Definitions
    /\ fn = {}
    /\ heap = InitialHeap
    /\ plugins = <<>>
    /\ data = [e \in Elements |-> 0]
    /\ listeners = EmptyBag
    /\ inDocument = Elements
    /\ call = [op |-> "load", element |-> <<>>, arguments |-> <<>>]
    /\ ret = Undefined
    /\ fired = EmptyBag
    /\ log = <<>>

\* $.makePlugin(pluginDef), as long as $.fn holds no entry point
MakePlugin ==
    /\ fn = {}
    /\ fn' = makePlugin(pluginDef).fn
    /\ ret' = IF makePlugin(pluginDef).err THEN Error ELSE Undefined
    /\ call' = [op |-> "makePlugin", element |-> <<>>, arguments |-> <<>>]
    /\ fired' = EmptyBag
    /\ log' = <<>>
    /\ UNCHANGED <<pluginDef, heap, plugins, data, listeners, inDocument>>

\* $(element).tableStyler("bindTo" | "unbindFrom" | "fire", handlerDef) on
\* one element
CallDescriptorMethod ==
    \E element \in Collections, name \in DescriptorApiNames,
       handlerDef \in CallerDescriptors :
        /\ Len(element) = 1
        /\ Call("descriptor", element, <<Str(name), Obj(handlerDef)>>)

\* $(element).tableStyler("unbindEventHandlers" | "destroyPlugin")
CallDestroyMethod ==
    \E element \in Collections, name \in {"unbindEventHandlers", "destroyPlugin"} :
        Call("api", element, <<Str(name)>>)

\* Code outside the plugin registers one of its listeners
OutsideOn ==
    \E l \in OutsideListeners :
        /\ l \notin DOMAIN listeners
        /\ listeners' = listeners (+) SetToBag({l})
        /\ call' = [op |-> "on", element |-> <<>>, arguments |-> <<>>]
        /\ ret' = Undefined
        /\ fired' = EmptyBag
        /\ log' = <<>>
        /\ UNCHANGED <<pluginDef, fn, heap, plugins, data, inDocument>>

NextDefinitions ==
    \/ MakePlugin
    \/ CallWithoutArguments
    \/ CallDescriptorMethod
    \/ CallDestroyMethod
    \/ OutsideOn

SpecDefinitions == InitDefinitions /\ [][NextDefinitions]_vars

----------------------------------------------------------------------------
\* Properties

\* The plugin the entry point resolves for a collection, as getPlugin reads it
\* before the call: the plugin stored on the first element, or 0
Cached(element) == DataGet(World, element)

\* The plugins constructed by the last call: those whose init the log shows
CreatedByLastCall == {log[i].receiver : i \in {j \in DOMAIN log : log[j].method = "init"}}

\* The deep merge of two configuration values, the overrides o over the
\* defaults d: o's entry wins wherever both have one, at both nesting levels,
\* and every entry only one of them has is kept
MergeMaps(d, o) ==
    [k \in DOMAIN d \cup DOMAIN o |-> IF k \in DOMAIN o THEN o[k] ELSE d[k]]
DeepMerge(d, o) ==
    [scal |-> [k \in DOMAIN o.scal \cup (DOMAIN d.scal \ DOMAIN o.nested) |->
                  IF k \in DOMAIN o.scal THEN o.scal[k] ELSE d.scal[k]],
     nested |-> [k \in DOMAIN o.nested \cup (DOMAIN d.nested \ DOMAIN o.scal) |->
                  IF k \notin DOMAIN o.nested THEN d.nested[k]
                  ELSE IF k \notin DOMAIN d.nested THEN o.nested[k]
                  ELSE MergeMaps(d.nested[k], o.nested[k])]]

\* C1: for every element, at most one Plugin has ever been constructed and
\* attached to it under the plugin's name.
C1_OneInstanceEverPerElement ==
    \A e \in Elements :
        Cardinality({p \in DOMAIN plugins :
            plugins[p].attached /\ e \in Range(plugins[p].element)}) <= 1

C3_ConfigIsMergeOfWrittenDefaults ==
    \A p \in CreatedByLastCall :
        ValueOf(heap, plugins[p].config)
            = DeepMerge(DefaultsAsWritten, plugins[p].overrides)

\* The descriptors declared in the definition's eventHandlers list, by name
DeclaredDefs == {EventHandlers[i].def : i \in DOMAIN EventHandlers}

\* The plugins whose destroy() the last call ran and that returned from it
DestroyedByLastCall ==
    IF ret.type = "error" THEN {}
    ELSE {log[i].receiver : i \in {j \in DOMAIN log :
             log[j].method \in {"unbindEventHandlers", "destroyPlugin"}}}

\* C4: once destroy() has returned for an instance, none of the handlers the
\* definition declares is bound for it any more, so no event invokes them;
\* after destroy(true) the wrapped element is out of the document as well.
C4_DestroyedHandlersNeverRun ==
    \A p \in DOMAIN plugins :
        plugins[p].destroyed # "no" =>
            /\ \A l \in DOMAIN listeners \cup DOMAIN fired :
                  ~(l.plugin = p /\ l.def \in DeclaredDefs)
            /\ plugins[p].destroyed = "full" =>
                  Range(plugins[p].element) \cap inDocument = {}

\* C5: when the instance on one element has been destroyed, every declared
\* handler of a live instance on a separate element is still bound, whatever
\* its target, and so still runs when its event is triggered.
C5_OtherInstanceKeepsHandlers ==
    \A p, q \in DOMAIN plugins :
        ( /\ plugins[p].destroyed # "no"
          /\ plugins[q].destroyed = "no"
          /\ plugins[p].attached /\ plugins[q].attached
          /\ Range(plugins[p].element) \cap Range(plugins[q].element) = {} )
        => \A d \in DeclaredDefs :
              \E l \in DOMAIN listeners : l.plugin = q /\ l.def = d

\* C6: the defaults of the definition stay as written, at both nesting
\* levels, whatever instances are constructed.
C6_DefaultsStayAsWritten == ValueOf(heap, DefaultsId) = DefaultsAsWritten

\* C7: a call with the name of a declared API method runs that method exactly
\* once, with the cached instance of the element as receiver (an instance
\* constructed by this call without overrides, its config equal to the
\* definition's defaults, when the element held none), hands it the remaining
\* arguments unchanged and in order, and returns what the method returned.
C7_ApiCallForwards ==
    [][(call'.op = "api" /\ ret'.type # "error") =>
          LET name == Head(call'.arguments).val
              cached == Cached(call'.element)
              p == IF cached # 0 THEN cached ELSE Len(plugins) + 1
              ran == {i \in DOMAIN log' : log'[i].method # "init"}
          IN  /\ Cardinality(ran) = 1
              /\ \A i \in ran :
                    /\ log'[i].method = name
                    /\ log'[i].receiver = p
                    /\ log'[i].args = Tail(call'.arguments)
                    /\ ret'.type = log'[i].result.type
                    /\ ret'.val = log'[i].result.val
              /\ cached # 0 => Len(plugins') = Len(plugins)
              /\ cached = 0 =>
                    /\ Len(plugins') = Len(plugins) + 1
                    /\ plugins'[p].element = call'.element
                    /\ plugins'[p].overrides = EmptyOptions
                    /\ ValueOf(heap', plugins'[p].config) = ValueOf(heap, DefaultsId)]_vars

\* C7 witness: a call of the API method echo with two arguments returned on an
\* element that held no instance: the log shows the init of the new instance and
\* then the method.
C7_Witness ==
    /\ call.op = "api"
    /\ Head(call.arguments).val = "echo"
    /\ Len(call.arguments) = 3
    /\ ret.type = "object"
    /\ Len(log) = 2
    /\ log[1].method = "init"
    /\ log[2].method = "echo"

\* C8: a call whose first argument is a string that names no declared API
\* method raises an error, runs no method and constructs no instance (and so
\* binds no listener).
C8_UnknownNameRaises ==
    call.op = "unknown" => (ret.type = "error" /\ log = <<>>)

\* C9: a call with no argument or with a config object returns the collection
\* it was made on.
C9_ReturnsItsOwnCollection ==
    call.op \in {"config", "noarg"} =>
        (ret.type = "object" /\ ret.val = call.element)

\* C10: right after destroy() has returned for an instance, no listener that
\* was attached through that instance is attached to any target.
C10_DestroyUnbindsEverything ==
    \A p \in DestroyedByLastCall :
        \A l \in DOMAIN listeners : l.plugin # p

\* C11: the definition's init runs once for every instance, in the call that
\* constructs it and never again, with that instance as receiver, and when it
\* is entered the instance's config is the merge of the defaults and the
\* call's overrides, every api and helper proxy is installed, and every
\* declared handler is bound.
C11_InitRunsOnceWhenReady ==
    [][\A p \in DOMAIN plugins' :
          LET inits == {i \in DOMAIN log' :
                          log'[i].method = "init" /\ log'[i].receiver = p}
          IN  IF p \in DOMAIN plugins THEN inits = {}
              ELSE /\ Cardinality(inits) = 1
                   /\ plugins'[p].initSaw.config
                         = DeepMerge(ValueOf(heap, DefaultsId), plugins'[p].overrides)
                   /\ plugins'[p].initSaw.config = ValueOf(heap', plugins'[p].config)
                   /\ plugins'[p].initSaw.api = ApiNames \cup DescriptorApiNames
                   /\ plugins'[p].initSaw.helpers = HelperNames
                   /\ plugins'[p].initSaw.bound = DeclaredDefs]_vars

\* C11 witness: the last call constructed an instance with overrides, and its
\* init saw the declared handlers bound.
C11_Witness ==
    \E p \in CreatedByLastCall :
        /\ plugins[p].overrides # EmptyOptions
        /\ plugins[p].initSaw.bound = DeclaredDefs
        /\ plugins[p].attached

\* The descriptors of CallerDescriptors whose eventName resolves to an empty
\* value: the empty string, a callback that returns undefined
EmptyNamed ==
    {d \in CallerDescriptors :
        \/ d.eventName.type \in {"undefined", "null"}
        \/ d.eventName.type = "string" /\ d.eventName.val = ""
        \/ d.eventName.type = "function" /\ d.eventName.val = "config.missing"}

\* C12: this.bind, this.unbind and this.trigger, called with a descriptor
\* whose eventName resolves to an empty value, raise an error; no listener is
\* attached or detached by them and no handler runs.
C12_EmptyEventNameRaises ==
    [][(call'.op = "descriptor" /\ call'.arguments[2].val \in EmptyNamed) =>
          /\ ret'.type = "error"
          /\ fired' = EmptyBag
          /\ Cached(call'.element) # 0 => listeners' = listeners
          /\ \A l \in DOMAIN listeners' \ DOMAIN listeners :
                l.def \in DeclaredDefs]_vars

\* C12 witness: unbindFrom was called on an element that holds an instance
\* with bound listeners, with a descriptor whose eventName is a callback that
\* returns undefined, and raised.
C12_Witness ==
    /\ call.op = "descriptor"
    /\ call.arguments[1].val = "unbindFrom"
    /\ call.arguments[2].val.def = "lookup"
    /\ ret.type = "error"
    /\ log # <<>>
    /\ data[Head(call.element)] # 0
    /\ \E l \in DOMAIN listeners : l.plugin = data[Head(call.element)]

\* C13: a definition whose name is missing or empty is rejected by makePlugin
\* with an error and gets no entry point; from a definition whose name is
\* missing or is not a string no instance is ever constructed: no Plugin is
\* attached to an element, none has run its init or bound a listener, and
\* every call of the entry point raises.
C13_UnnamedDefinitionRejected ==
    /\ ~Truthy(pluginDef.pluginName) =>
          /\ fn = {}
          /\ plugins = <<>>
          /\ call.op = "makePlugin" => ret.type = "error"
    /\ pluginDef.pluginName.type # "string" =>
          /\ \A p \in DOMAIN plugins :
                ~plugins[p].attached /\ plugins[p].initSaw = NotRun
          /\ \A e \in Elements : data[e] = 0
          /\ \A l \in DOMAIN listeners : l.plugin = 0
          /\ call.op \in {"noarg", "api", "descriptor"} => ret.type = "error"

\* C13 witness: makePlugin has raised for the definition without a name.
C13_Witness ==
    /\ pluginDef.pluginName = Undefined
    /\ call.op = "makePlugin"
    /\ ret.type = "error"
    /\ fn = {}

\* The call that led to the next state ran destroy() on the instance the
\* element holds
DestroysCached ==
    /\ call'.op = "api"
    /\ Head(call'.arguments).val = "unbindEventHandlers"
    /\ Cached(call'.element) # 0

\* C14: destroy() called again right after destroy() on the same instance
\* raises no error and leaves the bound listeners as they are; and destroy()
\* on an instance none of whose declared descriptors is bound, which unbinds
\* only descriptors that are not bound, changes no listener.
C14_DestroyAgainChangesNothing ==
    [][DestroysCached =>
          /\ ( /\ call.op = "api"
               /\ call.arguments = call'.arguments
               /\ call.element = call'.element
               /\ ret.type # "error" )
             => (ret'.type # "error" /\ listeners' = listeners)
          /\ (\A l \in DOMAIN listeners :
                  ~(l.plugin = Cached(call'.element) /\ l.def \in DeclaredDefs))
             => (ret'.type # "error" /\ listeners' = listeners)]_vars

\* C15: whatever a call of the entry point binds, unbinds, destroys or
\* triggers, every listener that another plugin or other code registered on
\* a target that is still in the document stays attached, and none of them
\* is invoked by the call.
C15_NeverTouchesOthersListeners ==
    [][call'.op \in {"noarg", "api", "descriptor"} =>
          /\ \A l \in DOMAIN fired' : l.plugin # 0 /\ l.ns = PluginName
          /\ \A l \in OutsideListeners \cap DOMAIN listeners :
                l.target \in inDocument' \cup {Window} =>
                    l \in DOMAIN listeners' /\ listeners'[l] = listeners[l]]_vars

\* The number of events that start at the elements of a collection and pass
\* the target, one event for each element
Deliveries(element, target, doc) ==
    Cardinality({i \in DOMAIN element : target \in Path(element[i], doc)})

\* C16: no handler runs in a call that constructs an instance or binds a
\* listener.  When the host delivers an event, the handlers that run are
\* those of bound listeners of the event's type on the targets the event
\* passes, each once for every time it is bound.  When an API method triggers
\* a descriptor, the handlers that run are those of the listeners bound under
\* the plugin's name for that event on the targets the events pass, each
\* once for every event and every time it is bound.
C16_HandlersRunOnlyOnDelivery ==
    [][/\ ( \/ call'.op \in {"config", "noarg", "unknown"}
            \/ /\ call'.op = "api"
               /\ Head(call'.arguments).val # "simulateTableClick" )
          => fired' = EmptyBag
       /\ call'.op = "deliver" =>
            /\ \A l \in DOMAIN fired' :
                  l \in DOMAIN listeners /\ fired'[l] = listeners[l]
            /\ \E type \in EventTypes, e \in Elements \cup {Window} :
                  \A l \in DOMAIN fired' :
                      l.type = type /\ l.target \in Path(e, inDocument)
       /\ ( /\ call'.op = "api"
            /\ Head(call'.arguments).val = "simulateTableClick"
            /\ ret'.type # "error" )
          => LET cached == Cached(call'.element)
                 p == IF cached # 0 THEN cached ELSE Len(plugins) + 1
                 runs(l) == Deliveries(plugins'[p].element, l.target, inDocument')
             IN  /\ \A l \in DOMAIN fired' :
                       /\ l \in DOMAIN listeners'
                       /\ l.type = "click" /\ l.ns = PluginName
                       /\ fired'[l] = listeners'[l] * runs(l)
                 /\ \A l \in DOMAIN listeners' :
                       ( /\ l.type = "click" /\ l.ns = PluginName
                         /\ l.selector = "" /\ runs(l) > 0 )
                       => l \in DOMAIN fired']_vars

\* C16 witness: the host has delivered an event that started at a cell, and
\* the handler of the delegated descriptor ran for it, once.
C16_Witness ==
    /\ call.op = "deliver"
    /\ \E l \in DOMAIN fired : l.def = "cell" /\ fired[l] = 1

\* C17: once destroy() without fullDestroy has returned for an instance, a
\* call of the entry point without a method name on a collection that holds
\* one of the instance's elements constructs nothing, runs no init and binds
\* no listener.
C17_DestroyedInstanceStaysAttached ==
    [][\A p \in DOMAIN plugins :
          ( /\ plugins[p].destroyed = "unbind"
            /\ call'.op \in {"config", "noarg"}
            /\ Range(plugins[p].element) \cap Range(call'.element) # {} )
          => /\ Len(plugins') = Len(plugins)
             /\ log' = <<>>
             /\ listeners' = listeners]_vars

\* C18: when the construction of an instance fails (a declared descriptor
\* without an event name, or an init that raises), nothing of it is left: a
\* Plugin that was not attached to its element has no listener bound.
C18_FailedConstructionLeavesNothing ==
    pluginDef.init.val # "reenter" =>
        \A p \in DOMAIN plugins :
            ~plugins[p].attached =>
                /\ \A e \in Elements : data[e] # p
                /\ \A l \in DOMAIN listeners : l.plugin # p

\* C19: with an init that calls the plugin's entry point on this.element, a
\* call that constructs the instance returns, and has constructed exactly one
\* instance, attached to the element.
C19_ReentrantInitConstructsOne ==
    (pluginDef.init.val = "reenter" /\ call.op = "noarg") =>
        /\ ret.type # "error"
        /\ Len(plugins) = 1
        /\ plugins[1].attached

====
